---- MODULE Spec2Model ----
(***************************************************************************)
(* Model of src/get-html-collection.ts: the two builders of the HTML       *)
(* knowledge collection, getUserConfigHtmlCollection and                   *)
(* getBuiltInHtmlCollection, with the helper addMissingAttrTypes.          *)
(*                                                                         *)
(* JavaScript objects are functions from field names to values, so an      *)
(* object spread {...a, k: v} is (k :> v) @@ a and an optional field is a  *)
(* field that may be missing from the DOMAIN.  A lazy getType accessor is  *)
(* the type descriptor it yields.  Attribute and event names are sequences *)
(* of chunks whose concatenation is the name; a name that begins with the  *)
(* letters "on" always has the chunk "on" first, so that                   *)
(* name.replace(/^on/, "") is the removal of that first chunk.  Tag names  *)
(* are plain strings.  A call that may throw yields [threw |-> TRUE] or    *)
(* [threw |-> FALSE, value |-> v].                                         *)
(***************************************************************************)
EXTENDS Integers, Sequences, FiniteSets, TLC

VARIABLES
    mod,         \* the imported baseline arrays HTML5_TAGS, HTML5_GLOBAL_ATTRIBUTES, ...
    resolver,    \* the Type Resolver's table (extra-html-data)
    config,      \* the user configuration object
    fs,          \* the file system the user builder reads
    lastResult,  \* the local object `result` of the latest built-in call, after its in-place patches
    builtInOut,  \* the collections returned by getBuiltInHtmlCollection, in call order
    userOut      \* the outcomes of getUserConfigHtmlCollection, in call order

vars == <<mod, resolver, config, fs, lastResult, builtInOut, userOut>>

(* ------------------------------ bounds -------------------------------- *)
MaxCalls == 2      \* calls of the two builders in one run
MaxSources == 2    \* entries of config.customHtmlData
MaxTags == 2       \* entries of HTML5_TAGS

(* --------------------------- generic helpers --------------------------- *)
Range(s) == {s[i] : i \in 1..Len(s)}

SeqsUpTo(S, n) == UNION {[1..k -> S] : k \in 0..n}

Map(s, F(_)) == [i \in 1..Len(s) |-> F(s[i])]

Has(o, k) == k \in DOMAIN o

\* index of the first element satisfying P, 0 when there is none (Array.prototype.find)
FindIndex(s, P(_)) ==
    IF \E i \in 1..Len(s) : P(s[i])
    THEN CHOOSE i \in 1..Len(s) : P(s[i]) /\ \A j \in 1..(i - 1) : ~P(s[j])
    ELSE 0

Distinct(s, Key(_)) == \A i, j \in 1..Len(s) : Key(s[i]) = Key(s[j]) => i = j

(* ------------------------------- types --------------------------------- *)
AnyType == [kind |-> "ANY"]
StringType == [kind |-> "STRING"]
BooleanType == [kind |-> "BOOLEAN"]
NullType == [kind |-> "NULL"]
NullableString == [kind |-> "UNION", types |-> <<StringType, NullType>>]
Literal(v) == [kind |-> "STRING_LITERAL", value |-> v]

(* ------------------------------- names --------------------------------- *)
Nm(s) == <<s>>
On(s) == <<"on", s>>

\* name.replace(/^on/, ""): a regular expression without the g flag removes one match
StripOn(name) == IF Len(name) >= 1 /\ name[1] = "on" THEN Tail(name) ELSE name

Ok(v) == [threw |-> FALSE, value |-> v]
Throws == [threw |-> TRUE]

(* ------------------ Spec Data Normalizer (parseHtmlData) ---------------- *)
\* The type a data attribute declares: the boolean value set "v", a named value
\* set of the document, or nothing (the wildcard).
AttrDataType(d, valueSets) ==
    IF ~Has(d, "valueSet") THEN AnyType
    ELSE IF d.valueSet = "v" THEN BooleanType
    ELSE IF d.valueSet \in DOMAIN valueSets
         THEN [kind |-> "UNION", types |-> Map(valueSets[d.valueSet], Literal)]
         ELSE AnyType

TagDataToHtmlTagAttr(d, valueSets, scope) ==
    LET base == [kind |-> "attribute", name |-> d.name, getType |-> AttrDataType(d, valueSets)]
        withTag == IF scope = <<>> THEN base ELSE ("fromTagName" :> scope[1]) @@ base
    IN  IF Has(d, "description") THEN ("description" :> d.description) @@ withTag ELSE withTag

TagDataToHtmlTag(t, valueSets) ==
    LET ToAttr(d) == TagDataToHtmlTagAttr(d, valueSets, <<t.name>>)
    IN  [tagName |-> t.name,
         description |-> IF Has(t, "description") THEN t.description ELSE "",
         attributes |-> Map(t.attributes, ToAttr),
         properties |-> <<>>,
         events |-> <<>>,
         slots |-> <<>>]

\* A document of version 1 is normalised into fresh lists; anything else (a raw
\* string, a document of another version) is rejected.
parseHtmlData(data) ==
    IF data.type = "object" /\ data.doc.version = 1
    THEN LET doc == data.doc
             ToTag(t) == TagDataToHtmlTag(t, doc.valueSets)
             ToAttr(d) == TagDataToHtmlTagAttr(d, doc.valueSets, <<>>)
         IN  Ok([tags |-> Map(doc.tags, ToTag),
                 attrs |-> Map(doc.globalAttributes, ToAttr),
                 events |-> <<>>])
    ELSE Throws

(* ------------------------------ Merge Engine ---------------------------- *)
IsBuiltIn(e) == Has(e, "builtIn") /\ e.builtIn

\* On a collision the later entry's fields override, builtIn is the AND.
CombineNamed(old, new) == ("builtIn" :> (IsBuiltIn(old) /\ IsBuiltIn(new))) @@ new @@ old

\* A keyed reduction in input order: a key keeps the place of its first entry.
MergeInto(list, Key(_), Combine(_, _)) ==
    LET acc[k \in 0..Len(list)] ==
            IF k = 0 THEN <<>>
            ELSE LET e == list[k]
                     SameKey(x) == Key(x) = Key(e)
                     i == FindIndex(acc[k - 1], SameKey)
                 IN  IF i = 0 THEN Append(acc[k - 1], e)
                     ELSE [acc[k - 1] EXCEPT ![i] = Combine(acc[k - 1][i], e)]
    IN  acc[Len(list)]

NameOf(e) == e.name
TagNameOf(t) == t.tagName

mergeHtmlAttrs(attrs) == MergeInto(attrs, NameOf, CombineNamed)
mergeHtmlEvents(events) == MergeInto(events, NameOf, CombineNamed)

CombineTags(old, new) ==
    [tagName |-> old.tagName,
     description |-> IF new.description # "" THEN new.description ELSE old.description,
     builtIn |-> IsBuiltIn(old) /\ IsBuiltIn(new),
     attributes |-> mergeHtmlAttrs(old.attributes \o new.attributes),
     properties |-> mergeHtmlAttrs(old.properties \o new.properties),
     events |-> mergeHtmlEvents(old.events \o new.events),
     slots |-> MergeInto(old.slots \o new.slots, NameOf, CombineNamed)]

mergeHtmlTags(tags) == MergeInto(tags, TagNameOf, CombineTags)

(* ------------------------------ Type Resolver --------------------------- *)
hasTypeForAttrName(r, name) == name \in DOMAIN r.extra
html5TagAttrType(r, name) == IF name \in DOMAIN r.extra THEN r.extra[name] ELSE r.fallback

(* ------------------- getUserConfigHtmlCollection (16-70) ---------------- *)
StringSource(p) == [type |-> "string", text |-> p]
ObjectSource(d) == [type |-> "object", doc |-> d]

\* line 19: Array.isArray(config.customHtmlData) ? config.customHtmlData : [config.customHtmlData]
CustomHtmlDataList(c) ==
    IF c.customHtmlData.isArray THEN c.customHtmlData.items ELSE <<c.customHtmlData.item>>

existsSync(fsys, p) == p \in DOMAIN fsys

readFileSync(fsys, p) == IF fsys[p].kind = "file" THEN Ok(fsys[p].text) ELSE Throws

\* The documents that the texts of the modelled files denote; any other text is not JSON.
JsonDocuments ==
    [t \in {"{A}", "{V2}"} |->
        IF t = "{A}"
        THEN [version |-> 1,
              tags |-> <<[name |-> "my-widget",
                          attributes |-> <<[name |-> Nm("size"), valueSet |-> "v"]>>]>>,
              globalAttributes |-> <<[name |-> Nm("foo")]>>,
              valueSets |-> <<>>]
        ELSE [version |-> 2, tags |-> <<>>, globalAttributes |-> <<>>, valueSets |-> <<>>]]

JSONParse(text) ==
    IF text \in DOMAIN JsonDocuments THEN Ok(ObjectSource(JsonDocuments[text])) ELSE Throws

\* line 22: the data of one source
ResolveSource(src, fsys) ==
    IF src.type = "string" /\ existsSync(fsys, src.text)
    THEN LET content == readFileSync(fsys, src.text)
         IN  IF content.threw THEN Throws ELSE JSONParse(content.value)
    ELSE Ok(src)

\* lines 24-28: the parsed source is the later input of each merge
MergeSourceParsedFirst(collection, parsed) ==
    [tags |-> mergeHtmlTags(parsed.tags \o collection.tags),
     attrs |-> mergeHtmlAttrs(parsed.attrs \o collection.attrs),
     events |-> mergeHtmlEvents(parsed.events \o collection.events)]

MergeSource(collection, parsed) ==
    [tags |-> mergeHtmlTags(collection.tags \o parsed.tags),
     attrs |-> mergeHtmlAttrs(collection.attrs \o parsed.attrs),
     events |-> mergeHtmlEvents(collection.events \o parsed.events)]

\* lines 21-28: the body of the try block
TrySource(collection, src, fsys) ==
    LET data == ResolveSource(src, fsys)
    IN  IF data.threw THEN Throws
        ELSE LET parsedCollection == parseHtmlData(data.value)
             IN  IF parsedCollection.threw THEN Throws
                 ELSE Ok(MergeSource(collection, parsedCollection.value))

\* lines 29-31: the catch block logs and leaves the running collection as it was
CatchRethrows(collection, attempt) == attempt

CatchSourceError(collection, attempt) == IF attempt.threw THEN Ok(collection) ELSE attempt

\* lines 18-33: the loop over the sources
RECURSIVE LoopSources(_, _, _)
LoopSources(collection, sources, fsys) ==
    IF sources = <<>> THEN Ok(collection)
    ELSE LET step == CatchSourceError(collection, TrySource(collection, Head(sources), fsys))
         IN  IF step.threw THEN Throws ELSE LoopSources(step.value, Tail(sources), fsys)

EmptyCollection == [tags |-> <<>>, events |-> <<>>, attrs |-> <<>>]

\* lines 36-45
GlobalTag(tagName) ==
    [tagName |-> tagName, properties |-> <<>>, attributes |-> <<>>, events |-> <<>>, slots |-> <<>>]

\* The synthesized attribute is given the string type.
GlobalAttrString(attrName) == [name |-> attrName, kind |-> "attribute", getType |-> StringType]

\* lines 47-54
GlobalAttr(attrName) == [name |-> attrName, kind |-> "attribute", getType |-> AnyType]

\* lines 56-63
GlobalEvent(eventName) == [name |-> eventName, kind |-> "event", getType |-> AnyType]

\* lines 65-69: the synthesized entries come first
ReturnUserCollectionDataFirst(synth, collection) ==
    [tags |-> collection.tags \o synth.tags,
     attrs |-> collection.attrs \o synth.attrs,
     events |-> collection.events \o synth.events]

ReturnUserCollection(synth, collection) ==
    [tags |-> synth.tags \o collection.tags,
     attrs |-> synth.attrs \o collection.attrs,
     events |-> synth.events \o collection.events]

getUserConfigHtmlCollection(c, fsys) ==
    LET collection == LoopSources(EmptyCollection, CustomHtmlDataList(c), fsys)
        synth == [tags |-> Map(c.globalHtmlTags, GlobalTag),
                  attrs |-> Map(c.globalHtmlAttributes, GlobalAttr),
                  events |-> Map(c.globalHtmlEvents, GlobalEvent)]
    IN  IF collection.threw THEN Throws
        ELSE Ok(ReturnUserCollection(synth, collection.value))

(* --------------------- getBuiltInHtmlCollection (72-219) ---------------- *)
\* lines 73-78: the document handed to the normalizer
BaselineDocument(m) ==
    [version |-> 1,
     tags |-> m.HTML5_TAGS,
     globalAttributes |-> m.HTML5_GLOBAL_ATTRIBUTES \o m.HTML5_EVENTS \o m.ARIA_ATTRIBUTES,
     valueSets |-> m.HTML5_VALUE_MAP]

\* A module-level cache of the normalised baseline: the object patched by the
\* previous call would be patched again.
NormalisedBaselineCached(m, previous) ==
    IF previous = <<>> THEN parseHtmlData(ObjectSource(BaselineDocument(m))).value
    ELSE previous[1]

\* line 73: every call normalises the baseline anew; the object the previous call
\* patched in place is not read
NormalisedBaseline(m, previous) == parseHtmlData(ObjectSource(BaselineDocument(m))).value

\* lines 80-87
SvgTag ==
    [attributes |-> <<>>, properties |-> <<>>, events |-> <<>>, slots |-> <<>>,
     tagName |-> "svg", description |-> ""]

\* lines 89-120
SlotTag ==
    [properties |-> <<>>,
     events |-> <<[name |-> Nm("slotchange"), description |-> "slotchange", getType |-> AnyType,
                   fromTagName |-> "slot", builtIn |-> TRUE]>>,
     slots |-> <<>>,
     attributes |-> <<[kind |-> "attribute", name |-> Nm("name"), getType |-> StringType,
                       fromTagName |-> "slot", builtIn |-> TRUE],
                      [kind |-> "attribute", name |-> On("slotchange"), getType |-> StringType,
                       fromTagName |-> "slot", builtIn |-> TRUE]>>,
     tagName |-> "slot",
     description |-> ""]

\* lines 122-127
GlobalSlotAttr == [kind |-> "attribute", name |-> Nm("slot"), getType |-> StringType, builtIn |-> TRUE]

\* The special tags are pushed only when the baseline lacks them.
PushSpecialTagsIfAbsent(result) ==
    LET names == {result.tags[i].tagName : i \in 1..Len(result.tags)}
    IN  [result EXCEPT
            !.tags = @ \o (IF "svg" \in names THEN <<>> ELSE <<SvgTag>>)
                       \o (IF "slot" \in names THEN <<>> ELSE <<SlotTag>>),
            !.attrs = Append(@, GlobalSlotAttr)]

\* lines 80-127: result.tags.push(svg), result.tags.push(slot), result.attrs.push(slot)
PushSpecialTags(result) ==
    [result EXCEPT !.tags = @ \o <<SvgTag, SlotTag>>, !.attrs = Append(@, GlobalSlotAttr)]

FindTag(tags, tagName) == LET IsTag(t) == t.tagName = tagName IN FindIndex(tags, IsTag)

\* lines 131-143 and 148-160
ValueProperty(tagName) ==
    [kind |-> "property", name |-> Nm("value"), builtIn |-> TRUE, fromTagName |-> tagName,
     getType |-> NullableString]

\* lines 129-144 (textarea) and 146-161 (input): push onto the first such tag's properties
PushValueProperty(result, tagName) ==
    LET i == FindTag(result.tags, tagName)
    IN  IF i = 0 THEN result
        ELSE [result EXCEPT !.tags[i].properties = Append(@, ValueProperty(tagName))]

\* lines 167-173 and 181-187
ControlsListAttr(tagName) ==
    [kind |-> "attribute", fromTagName |-> tagName, builtIn |-> TRUE, name |-> Nm("controlslist"),
     getType |-> StringType]

\* lines 188-196
PlaysInlineAttr ==
    [kind |-> "attribute", fromTagName |-> "video", builtIn |-> TRUE, name |-> Nm("playsinline"),
     getType |-> BooleanType, description |-> "playsinline"]

\* The patched attributes replace a baseline attribute of the same name.
AppendAttributesMerged(result, tagName, extra) ==
    LET i == FindTag(result.tags, tagName)
    IN  IF i = 0 THEN result
        ELSE [result EXCEPT !.tags[i].attributes = mergeHtmlAttrs(@ \o extra)]

\* lines 163-175 (audio) and 177-198 (video): the first such tag's attributes are
\* replaced by a copy with the extra entries at the end
AppendAttributes(result, tagName, extra) ==
    LET i == FindTag(result.tags, tagName)
    IN  IF i = 0 THEN result
        ELSE [result EXCEPT !.tags[i].attributes = @ \o extra]

\* The baseline's handler names are registered as they are.
GlobalEventUnstripped(globalEvent) ==
    [name |-> globalEvent.name, description |-> globalEvent.description, getType |-> AnyType,
     builtIn |-> TRUE]

\* lines 201-206
GlobalEventOf(globalEvent) ==
    [name |-> StripOn(globalEvent.name), description |-> globalEvent.description,
     getType |-> AnyType, builtIn |-> TRUE]

\* lines 200-207
PushGlobalEvents(result, events) == [result EXCEPT !.events = @ \o Map(events, GlobalEventOf)]

\* lines 80-207: the in-place patches, in the order of the code
PatchResult(result, m) ==
    PushGlobalEvents(
        AppendAttributes(
            AppendAttributes(
                PushValueProperty(PushValueProperty(PushSpecialTags(result), "textarea"), "input"),
                "audio", <<ControlsListAttr("audio")>>),
            "video", <<ControlsListAttr("video"), PlaysInlineAttr>>),
        m.HTML5_EVENTS)

\* Only attributes of the wildcard type are back-filled.
addMissingAttrTypesWildcardOnly(attrs, r) ==
    LET Fill(attr) ==
            IF attr.getType.kind = "ANY"
            THEN ("getType" :> html5TagAttrType(r, attr.name)) @@ attr
            ELSE attr
    IN  Map(attrs, Fill)

\* lines 221-233
addMissingAttrTypes(attrs, r) ==
    LET Fill(attr) ==
            IF hasTypeForAttrName(r, attr.name) \/ attr.getType.kind = "ANY"
            THEN ("getType" :> html5TagAttrType(r, attr.name)) @@ attr
            ELSE attr
    IN  Map(attrs, Fill)

\* { ...x, builtIn: true }
MarkBuiltIn(x) == ("builtIn" :> TRUE) @@ x

\* The tag-scoped attributes keep the builtIn value they came with.
FinishBuiltInTagAttrsUnmarked(result, r) ==
    LET FinishTag(tag) ==
            ("builtIn" :> TRUE) @@ ("attributes" :> addMissingAttrTypes(tag.attributes, r)) @@ tag
    IN  [tags |-> Map(result.tags, FinishTag),
         attrs |-> addMissingAttrTypes(Map(result.attrs, MarkBuiltIn), r),
         events |-> Map(result.events, MarkBuiltIn)]

\* lines 209-218: the returned object
FinishBuiltIn(result, r) ==
    LET FinishTag(tag) ==
            ("builtIn" :> TRUE)
            @@ ("attributes" :> addMissingAttrTypes(Map(tag.attributes, MarkBuiltIn), r))
            @@ tag
    IN  [tags |-> Map(result.tags, FinishTag),
         attrs |-> addMissingAttrTypes(Map(result.attrs, MarkBuiltIn), r),
         events |-> Map(result.events, MarkBuiltIn)]

(* -------------------------------- inputs -------------------------------- *)
\* Baseline tag entries: with and without the members the patches add, and the
\* two tags the builder adds itself.
TagDataChoices ==
    {[name |-> "video", attributes |-> <<[name |-> Nm("src")]>>],
     [name |-> "video",
      attributes |-> <<[name |-> Nm("controlslist")], [name |-> Nm("playsinline"), valueSet |-> "v"]>>],
     [name |-> "audio", attributes |-> <<[name |-> Nm("crossorigin"), valueSet |-> "xo"]>>],
     [name |-> "audio", attributes |-> <<[name |-> Nm("controlslist"), valueSet |-> "xo"]>>],
     [name |-> "textarea", attributes |-> <<[name |-> Nm("src"), valueSet |-> "v"]>>],
     [name |-> "input", attributes |-> <<[name |-> Nm("checked"), valueSet |-> "v"], [name |-> On("click")]>>],
     [name |-> "svg", attributes |-> <<>>],
     [name |-> "slot", attributes |-> <<[name |-> Nm("name")]>>]}

EventDataChoices ==
    {<<>>,
     <<[name |-> On("click"), description |-> "click handler"]>>,
     <<[name |-> <<"on", "on", "line">>, description |-> "online handler"],
       [name |-> Nm("on"), description |-> "on"]>>,
     <<[name |-> Nm("toggle"), description |-> "toggle"],
       [name |-> On("click"), description |-> "click handler"]>>}

GlobalAttrDataChoices ==
    {<<[name |-> Nm("class")]>>,
     <<[name |-> Nm("hidden"), valueSet |-> "v"], [name |-> Nm("slot")]>>}

DefaultMod ==
    [HTML5_TAGS |-> <<[name |-> "video", attributes |-> <<[name |-> Nm("src")]>>]>>,
     HTML5_GLOBAL_ATTRIBUTES |-> <<[name |-> Nm("class")]>>,
     HTML5_EVENTS |-> <<[name |-> On("click"), description |-> "click handler"]>>,
     ARIA_ATTRIBUTES |-> <<[name |-> Nm("aria-label")]>>,
     HTML5_VALUE_MAP |-> [n \in {"xo"} |-> <<"anonymous", "use-credentials">>]]

DefaultResolver == [extra |-> <<>>, fallback |-> StringType]

\* Resolver tables: none, and two with special cases for patched and baseline names.
ResolverChoices ==
    {DefaultResolver,
     [extra |-> [n \in {Nm("controlslist"), Nm("src")} |->
                    IF n = Nm("src") THEN StringType ELSE BooleanType],
      fallback |-> AnyType],
     [extra |-> [n \in {Nm("playsinline"), On("click"), Nm("hidden")} |->
                    IF n = Nm("hidden") THEN BooleanType ELSE StringType],
      fallback |-> StringType]}

DocB ==
    [version |-> 1,
     tags |-> <<[name |-> "my-widget", description |-> "B",
                 attributes |-> <<[name |-> Nm("size")], [name |-> Nm("label")]>>],
                [name |-> "x-foo", attributes |-> <<>>]>>,
     globalAttributes |-> <<[name |-> Nm("foo"), valueSet |-> "v"], [name |-> Nm("bar")]>>,
     valueSets |-> <<>>]

DocEmpty == [version |-> 1, tags |-> <<>>, globalAttributes |-> <<>>, valueSets |-> <<>>]

\* ok.json holds the document {A}, bad.json is not JSON, v2.json is a document the
\* normalizer rejects, data is a directory, missing.json does not exist.
FileSystem ==
    [p \in {"ok.json", "bad.json", "v2.json", "data"} |->
        CASE p = "ok.json" -> [kind |-> "file", text |-> "{A}"]
          [] p = "bad.json" -> [kind |-> "file", text |-> "{"]
          [] p = "v2.json" -> [kind |-> "file", text |-> "{V2}"]
          [] p = "data" -> [kind |-> "dir"]]

ValidSources == {StringSource("ok.json"), ObjectSource(DocB), ObjectSource(DocEmpty)}

FailingSources ==
    {StringSource("missing.json"), StringSource("bad.json"), StringSource("v2.json"),
     StringSource("data")}

SourceChoices == ValidSources \cup FailingSources

CustomHtmlDataChoices ==
    {[isArray |-> TRUE, items |-> l] : l \in SeqsUpTo(SourceChoices, MaxSources)}
    \cup {[isArray |-> FALSE, item |-> x] : x \in SourceChoices}

GlobalTagChoices ==
    {<<>>, <<"my-widget">>, <<"my-widget", "my-widget">>, <<"x-bar", "x-foo">>}

GlobalAttrChoices == {<<>>, <<Nm("baz"), Nm("foo")>>}

GlobalEventChoices == {<<>>, <<Nm("tap"), On("tap")>>}

DefaultConfig ==
    [customHtmlData |-> [isArray |-> TRUE, items |-> <<>>],
     globalHtmlTags |-> <<>>, globalHtmlAttributes |-> <<>>, globalHtmlEvents |-> <<>>]

(* ----------------------------- state machine ---------------------------- *)
\* A program whose configuration varies, over the default baseline.
InitUser ==
    /\ config \in [customHtmlData : CustomHtmlDataChoices,
                   globalHtmlTags : GlobalTagChoices,
                   globalHtmlAttributes : GlobalAttrChoices,
                   globalHtmlEvents : GlobalEventChoices]
    /\ mod = DefaultMod
    /\ resolver = DefaultResolver

\* A program whose baseline data varies (no tag is listed twice), with the
\* default configuration.
InitBuiltIn ==
    /\ config = DefaultConfig
    /\ \E tags \in SeqsUpTo(TagDataChoices, MaxTags), events \in EventDataChoices,
          attrs \in GlobalAttrDataChoices :
            /\ \A i, j \in 1..Len(tags) : tags[i].name = tags[j].name => i = j
            /\ mod = [DefaultMod EXCEPT !.HTML5_TAGS = tags, !.HTML5_EVENTS = events,
                                        !.HTML5_GLOBAL_ATTRIBUTES = attrs]
    /\ resolver \in ResolverChoices

Init ==
    /\ InitUser \/ InitBuiltIn
    /\ fs = FileSystem
    /\ lastResult = <<>>
    /\ builtInOut = <<>>
    /\ userOut = <<>>

CallBuiltIn ==
    /\ Len(builtInOut) + Len(userOut) < MaxCalls
    /\ LET result == PatchResult(NormalisedBaseline(mod, lastResult), mod)
       IN  /\ lastResult' = <<result>>
           /\ builtInOut' = Append(builtInOut, FinishBuiltIn(result, resolver))
    /\ UNCHANGED <<mod, resolver, config, fs, userOut>>

CallUser ==
    /\ Len(builtInOut) + Len(userOut) < MaxCalls
    /\ userOut' = Append(userOut, getUserConfigHtmlCollection(config, fs))
    /\ UNCHANGED <<mod, resolver, config, fs, lastResult, builtInOut>>

Next == CallBuiltIn \/ CallUser

Spec == Init /\ [][Next]_vars

(* ================================ claims ================================ *)
UserCalls == 1..Len(userOut)
BuiltInCalls == 1..Len(builtInOut)

IsFailing(src) == src \in FailingSources

\* The configuration with the failing sources taken out of customHtmlData.
WithoutFailingSources(c) ==
    LET Valid(src) == ~IsFailing(src)
    IN  [c EXCEPT !.customHtmlData =
            [isArray |-> TRUE, items |-> SelectSeq(CustomHtmlDataList(c), Valid)]]

\* C1: with failing sources among customHtmlData the call does not throw and
\* returns the collection it returns for the configuration without them.
C1_FailingSourcesSkipped ==
    \A k \in UserCalls :
        /\ ~userOut[k].threw
        /\ userOut[k] = getUserConfigHtmlCollection(WithoutFailingSources(config), fs)

\* A call has returned for a configuration that lists a failing source before a
\* valid one that contributes tags.
C1_Witness ==
    /\ Len(userOut) >= 1
    /\ LET l == CustomHtmlDataList(config)
       IN  \E i, j \in 1..Len(l) : i < j /\ IsFailing(l[i]) /\ l[j] = ObjectSource(DocB)
    /\ ~userOut[1].threw
    /\ \E t \in Range(userOut[1].value.tags) : t.tagName = "x-foo"

\* The document a valid source denotes.
DocumentOf(src) == IF src.type = "string" THEN JsonDocuments[fs[src.text].text] ELSE src.doc

\* The normalised contribution of the k-th source: nothing for a failing one.
Contribution(src) ==
    IF IsFailing(src) THEN EmptyCollection
    ELSE parseHtmlData(ObjectSource(DocumentOf(src))).value

\* The running collection after the first k sources.
Running(l) ==
    LET run[k \in 0..Len(l)] ==
            IF k = 0 THEN EmptyCollection
            ELSE [tags |-> mergeHtmlTags(run[k - 1].tags \o Contribution(l[k]).tags),
                  attrs |-> mergeHtmlAttrs(run[k - 1].attrs \o Contribution(l[k]).attrs),
                  events |-> mergeHtmlEvents(run[k - 1].events \o Contribution(l[k]).events)]
    IN  run[Len(l)]

\* C10: each returned list is the synthesized entries of the global names, in
\* their listed order, followed by the merge of the sources in declared order.
C10_SynthesizedThenMerged ==
    \A k \in UserCalls :
        LET out == userOut[k].value
            merged == Running(CustomHtmlDataList(config))
        IN  /\ out.tags = Map(config.globalHtmlTags, GlobalTag) \o merged.tags
            /\ out.attrs = Map(config.globalHtmlAttributes, GlobalAttr) \o merged.attrs
            /\ out.events = Map(config.globalHtmlEvents, GlobalEvent) \o merged.events

\* A call has returned for two overlapping valid sources and some global names.
C10_Witness ==
    /\ Len(userOut) >= 1
    /\ CustomHtmlDataList(config) = <<StringSource("ok.json"), ObjectSource(DocB)>>
    /\ config.globalHtmlTags = <<"x-bar", "x-foo">>
    /\ config.globalHtmlAttributes # <<>>
    /\ Len(userOut[1].value.tags) = 4
    /\ userOut[1].value.tags[3].tagName = "my-widget"
    /\ userOut[1].value.tags[3].attributes[1].getType = AnyType

ContributesNothing(src) == IsFailing(src) \/ src = ObjectSource(DocEmpty)

\* C7: when no source contributes anything the collection holds one minimal tag
\* per listed global tag name and nothing else, and one wildcard-typed global
\* attribute and event per listed name.
C7_OnlySynthesizedEntries ==
    (\A src \in Range(CustomHtmlDataList(config)) : ContributesNothing(src)) =>
        \A k \in UserCalls :
            LET out == userOut[k].value
            IN  /\ Len(out.tags) = Len(config.globalHtmlTags)
                /\ \A i \in 1..Len(out.tags) :
                        /\ out.tags[i].tagName = config.globalHtmlTags[i]
                        /\ out.tags[i].attributes = <<>>
                        /\ out.tags[i].events = <<>>
                        /\ out.tags[i].properties = <<>>
                        /\ out.tags[i].slots = <<>>
                /\ Len(out.attrs) = Len(config.globalHtmlAttributes)
                /\ \A i \in 1..Len(out.attrs) :
                        /\ out.attrs[i].name = config.globalHtmlAttributes[i]
                        /\ out.attrs[i].getType.kind = "ANY"
                /\ Len(out.events) = Len(config.globalHtmlEvents)
                /\ \A i \in 1..Len(out.events) :
                        /\ out.events[i].name = config.globalHtmlEvents[i]
                        /\ out.events[i].getType.kind = "ANY"

\* A call has returned for a configuration with global names of every kind and
\* only sources that contribute nothing.
C7_Witness ==
    /\ Len(userOut) >= 1
    /\ CustomHtmlDataList(config) = <<StringSource("bad.json"), ObjectSource(DocEmpty)>>
    /\ config.globalHtmlTags = <<"my-widget">>
    /\ Len(config.globalHtmlAttributes) = 2
    /\ config.globalHtmlEvents # <<>>
    /\ Len(userOut[1].value.tags) = 1

AllBuiltIn(entries) == \A e \in Range(entries) : Has(e, "builtIn") /\ e.builtIn = TRUE

C4_BackFill ==
    Len(builtInOut) >= 1 =>
        LET before == lastResult[1]
            after == builtInOut[Len(builtInOut)]
            Filled(b, a) ==
                IF b.getType.kind = "ANY" \/ hasTypeForAttrName(resolver, b.name)
                THEN a.getType = html5TagAttrType(resolver, b.name)
                ELSE a.getType = b.getType
        IN  /\ Len(after.attrs) = Len(before.attrs)
            /\ \A j \in 1..Len(before.attrs) : Filled(before.attrs[j], after.attrs[j])
            /\ Len(after.tags) = Len(before.tags)
            /\ \A i \in 1..Len(before.tags) :
                    /\ Len(after.tags[i].attributes) = Len(before.tags[i].attributes)
                    /\ \A j \in 1..Len(before.tags[i].attributes) :
                            Filled(before.tags[i].attributes[j], after.tags[i].attributes[j])

\* A built-in call has returned where the back-fill replaced a specific type by
\* the resolver's special case, filled a wildcard, and left a specific type alone.
C4_Witness ==
    /\ Len(builtInOut) >= 1
    /\ \E t \in Range(builtInOut[1].tags) : \E a \in Range(t.attributes) :
            a.name = Nm("controlslist") /\ a.fromTagName = "video" /\ a.getType = BooleanType
    /\ \E i \in 1..Len(lastResult[1].tags) : \E j \in 1..Len(lastResult[1].tags[i].attributes) :
            /\ lastResult[1].tags[i].attributes[j].getType = AnyType
            /\ builtInOut[1].tags[i].attributes[j].getType = StringType
    /\ \E t \in Range(builtInOut[1].tags) : \E a \in Range(t.attributes) :
            a.name = Nm("playsinline") /\ a.getType = BooleanType

BaselineHasTag(tagName) == \E t \in Range(mod.HTML5_TAGS) : t.name = tagName

VideoOf(out) == out.tags[FindTag(out.tags, "video")]

HasVideoAttr(out, name, type) ==
    \E a \in Range(VideoOf(out).attributes) :
        /\ a.name = name
        /\ a.getType = type
        /\ Has(a, "builtIn") /\ a.builtIn = TRUE
        /\ Has(a, "fromTagName") /\ a.fromTagName = "video"

WithoutLeadingOn(name) ==
    IF name # <<>> /\ Head(name) = "on" THEN SubSeq(name, 2, Len(name)) ELSE name

\* C6: for every entry of the baseline event list the returned events hold a
\* global event named as the entry without one leading "on", of the wildcard
\* type and builtIn.
C6_GlobalEventsRegistered ==
    \A k \in BuiltInCalls :
        \A e \in Range(mod.HTML5_EVENTS) :
            \E ev \in Range(builtInOut[k].events) :
                /\ ev.name = WithoutLeadingOn(e.name)
                /\ ev.getType.kind = "ANY"
                /\ Has(ev, "builtIn") /\ ev.builtIn = TRUE
                /\ ~Has(ev, "fromTagName")

\* A built-in call has returned for a baseline that lists ononline and on: the
\* events online and the empty name are registered.
C6_Witness ==
    /\ Len(builtInOut) >= 1
    /\ \E e \in Range(mod.HTML5_EVENTS) : e.name = <<"on", "on", "line">>
    /\ \E ev \in Range(builtInOut[1].events) : ev.name = <<"on", "line">>
    /\ \E ev \in Range(builtInOut[1].events) : ev.name = <<>>

Self(x) == x
Names(entries) == {entries[i].name : i \in 1..Len(entries)}
TagNames(tags) == {tags[i].tagName : i \in 1..Len(tags)}

\* C2 as stated: no two tags of a returned collection have the same tagName.
C2_Original ==
    /\ \A k \in UserCalls : Distinct(userOut[k].value.tags, TagNameOf)
    /\ \A k \in BuiltInCalls : Distinct(builtInOut[k].tags, TagNameOf)

\* The tags the normalizer makes of the baseline.
NormalisedTags == parseHtmlData(ObjectSource(BaselineDocument(mod))).value.tags

\* C2 amended: the user collection's tagNames are distinct exactly when
\* globalHtmlTags repeats no name, the merged source tags are distinct and no
\* global name is among them; the built-in collection's exactly when the
\* normalised baseline's are distinct and include neither svg nor slot.
C2_TagNamesDistinctWhen ==
    /\ \A k \in UserCalls :
            LET merged == Running(CustomHtmlDataList(config)).tags
            IN  Distinct(userOut[k].value.tags, TagNameOf) <=>
                    /\ Distinct(config.globalHtmlTags, Self)
                    /\ Distinct(merged, TagNameOf)
                    /\ Range(config.globalHtmlTags) \cap TagNames(merged) = {}
    /\ \A k \in BuiltInCalls :
            Distinct(builtInOut[k].tags, TagNameOf) <=>
                /\ Distinct(NormalisedTags, TagNameOf)
                /\ TagNames(NormalisedTags) \cap {"svg", "slot"} = {}

\* A user call has returned two tags of one name for a repeated global name, or a
\* built-in call two slot tags for a baseline that defines slot.
C2_Witness ==
    \/ /\ Len(userOut) >= 1
       /\ config.globalHtmlTags = <<"my-widget", "my-widget">>
       /\ ~Distinct(userOut[1].value.tags, TagNameOf)
       /\ Len(builtInOut) >= 1
       /\ Distinct(builtInOut[1].tags, TagNameOf)
    \/ /\ Len(builtInOut) >= 1
       /\ "slot" \in TagNames(NormalisedTags)
       /\ Cardinality({i \in 1..Len(builtInOut[1].tags) : builtInOut[1].tags[i].tagName = "slot"}) = 2
       /\ Len(userOut) >= 1
       /\ Distinct(userOut[1].value.tags, TagNameOf)

\* C8 as stated: within every tag of the built-in collection attribute names,
\* property names and event names are distinct.
C8_Original ==
    \A k \in BuiltInCalls : \A t \in Range(builtInOut[k].tags) :
        /\ Distinct(t.attributes, NameOf)
        /\ Distinct(t.properties, NameOf)
        /\ Distinct(t.events, NameOf)

\* C8 amended: a tag's member names are distinct exactly when the normalised
\* baseline tag's were and the patch appended to it no name it already had:
\* controlslist for the first audio tag, controlslist and playsinline for the
\* first video tag, the property value for the first textarea and input tags;
\* the appended svg and slot tags have distinct member names.
C8_MemberNamesDistinctWhen ==
    \A k \in BuiltInCalls :
        LET out == builtInOut[k].tags
            base == NormalisedTags
            Added(i) ==
                (IF i = FindTag(base, "audio") THEN {Nm("controlslist")} ELSE {})
                \cup (IF i = FindTag(base, "video")
                      THEN {Nm("controlslist"), Nm("playsinline")} ELSE {})
            AddedProps(i) ==
                IF i \in {FindTag(base, "textarea"), FindTag(base, "input")}
                THEN {Nm("value")} ELSE {}
        IN  /\ Len(out) = Len(base) + 2
            /\ \A i \in 1..Len(base) :
                    /\ Distinct(out[i].attributes, NameOf) <=>
                            /\ Distinct(base[i].attributes, NameOf)
                            /\ Names(base[i].attributes) \cap Added(i) = {}
                    /\ Distinct(out[i].properties, NameOf) <=>
                            /\ Distinct(base[i].properties, NameOf)
                            /\ Names(base[i].properties) \cap AddedProps(i) = {}
                    /\ Distinct(out[i].events, NameOf) <=> Distinct(base[i].events, NameOf)
            /\ \A i \in (Len(base) + 1)..Len(out) :
                    /\ Distinct(out[i].attributes, NameOf)
                    /\ Distinct(out[i].properties, NameOf)
                    /\ Distinct(out[i].events, NameOf)

\* A built-in call has returned a video tag with two controlslist attributes for
\* a baseline whose video tag declares controlslist.
C8_Witness ==
    /\ Len(builtInOut) >= 1
    /\ BaselineHasTag("video")
    /\ Nm("controlslist") \in Names(NormalisedTags[FindTag(NormalisedTags, "video")].attributes)
    /\ LET a == VideoOf(builtInOut[1]).attributes
       IN  Cardinality({j \in 1..Len(a) : a[j].name = Nm("controlslist")}) = 2

AllEqual(s) == \A i, j \in 1..Len(s) : s[i] = s[j]

====
